---- MODULE Spec2Model ----
(***************************************************************************)
(* LoknoButton: a debounced push-button read by polling.                   *)
(*                                                                         *)
(* The model follows libraries/LoknoButton/LoknoButton.h.  The object's    *)
(* fields keep their names.  The three Arduino calls the class makes are   *)
(* the environment: pinMode (recorded in pin_mode), digitalRead (the raw   *)
(* sample handed to Begin and Read) and millis (the time since boot, kept  *)
(* unbounded in `now` and read through Millis as a wrapping counter).      *)
(***************************************************************************)
EXTENDS Integers, FiniteSets, Sequences, TLC

(***************************************************************************)
(* Bounds of the exploration.                                              *)
(***************************************************************************)
ClockBits == 2      \* width of the millis() counter on the small bench
MaxDebounce == 2    \* debounce_time ranges over 0..MaxDebounce there
MaxOverrun == 2     \* the small bench stops the clock this long after its first wrap
MaxSkew == 1        \* largest clock advance between the two millis() of one read()
MaxDuration == 2    \* largest argument handed to releasedFor()

(***************************************************************************)
(* Two test benches drive the button.  SmallBench has a narrow clock, so   *)
(* that the counter wraps several times, and short intervals.              *)
(* ScenarioBench is the configuration of Scenarios A to C: interval 50 ms,  *)
(* active high, on a clock that does not wrap within the horizon.          *)
(***************************************************************************)
SmallBench ==
  [ mod       |-> 2 ^ ClockBits,
    pullups   |-> BOOLEAN,
    polarity  |-> BOOLEAN,
    intervals |-> 0 .. MaxDebounce,
    ticks     |-> {1},
    skews     |-> 0 .. MaxSkew,
    durations |-> -1 .. MaxDuration,
    horizon   |-> 2 ^ ClockBits + MaxOverrun ]

ScenarioBench ==
  [ mod       |-> 256,
    pullups   |-> {TRUE},
    polarity  |-> {FALSE},
    intervals |-> {50},
    ticks     |-> {5},
    skews     |-> {0},
    durations |-> {100},
    horizon   |-> 120 ]

Benches == {SmallBench, ScenarioBench}

Operations ==
  {"new", "begin", "read", "tick", "isPressed", "releasedFor", "wasPressed", "wasReleased"}

VARIABLES
  debounce_time,        \* int debounce_time
  pullup_enable,        \* bool pullup_enable
  active_low,           \* bool active_low
  pressed,              \* bool pressed
  changed,              \* bool changed
  last_state,           \* bool last_state
  last_debounce_time,   \* unsigned long last_debounce_time
  pin_mode,             \* mode of the pin as last set by pinMode()
  now,                  \* milliseconds since boot, not wrapped
  bench,                \* the bench driving this run
  call,                 \* the most recent operation, its inputs and its result
  since,                \* unwrapped time at which last_debounce_time was set
  first,                \* unwrapped time of the first raw change observed after the
                        \*   debounced state was last established, -1 when none
  stretch,              \* counters over the reads since the last observed raw change
  last_event,           \* the last confirmed edge, "none" after begin()
  confirmed,            \* unwrapped time at which the last read() that reported
                        \*   changed returned, -1 when none
  twin                  \* a second LoknoButton of the opposite polarity, on a pin
                        \*   that carries the inverted level

config == <<debounce_time, pullup_enable, active_low>>
fields == <<pressed, changed, last_state, last_debounce_time>>
history == <<since, first, stretch, last_event, confirmed, twin>>
vars == <<config, fields, pin_mode, now, bench, call, history>>

HIGH == TRUE
LOW == FALSE

(***************************************************************************)
(* Arithmetic of unsigned long.  Each operator of the code is preceded by  *)
(* the faulty variants that the properties below are meant to tell apart   *)
(* from it.                                                                *)
(***************************************************************************)
\* millis() at unwrapped time t
Millis(t) == t % bench.mod

\* an int converted to unsigned long by the usual arithmetic conversions
ToUnsignedLong(i) == i % bench.mod

\* faulty: the difference taken in signed arithmetic and clamped at zero
SignedDifference(t, stamp) == IF Millis(t) >= stamp THEN Millis(t) - stamp ELSE 0

\* millis() - this->last_debounce_time, in unsigned long
ElapsedSince(t, stamp) == (Millis(t) - stamp) % bench.mod

(***************************************************************************)
(* The statements of begin() and read().                                   *)
(***************************************************************************)
\* faulty: the polarity is ignored
NoInvert(raw) == raw

\* faulty: the sample is inverted whatever the polarity
InvertAlways(raw) == ~raw

\* if (this->active_low) x = !x;
Invert(raw) == IF active_low THEN ~raw ELSE raw

\* faulty: a raw change inside the window does not restart it
TimestampKept(curr_state, t) == last_debounce_time

\* faulty: the sample is compared with the debounced state
TimestampOnPressed(curr_state, t) ==
  IF curr_state # pressed THEN Millis(t) ELSE last_debounce_time

\* faulty: every read() restarts the window
TimestampAlways(curr_state, t) == Millis(t)

\* if (curr_state != last_state) this->last_debounce_time = millis();
Timestamp(curr_state, t) ==
  IF curr_state # last_state THEN Millis(t) ELSE last_debounce_time

\* faulty: >= in place of >
DebouncedAtOrAfter(t, stamp) == ElapsedSince(t, stamp) >= ToUnsignedLong(debounce_time)

\* (millis() - this->last_debounce_time) > this->debounce_time
Debounced(t, stamp) == ElapsedSince(t, stamp) > ToUnsignedLong(debounce_time)

\* faulty: changed follows the level, the else of line 27 is missing
ChangedLevel(curr_state, stable) == stable

\* faulty: the guard of line 23 is missing
ChangedOnSample(curr_state, stable) == curr_state # pressed

\* the value of this->changed after the if/else of read()
ChangedAfter(curr_state, stable) == stable /\ curr_state # pressed

\* faulty: the sample is committed without waiting for the window
PressedImmediate(curr_state, stable) == curr_state

\* faulty: the assignment of line 25 is missing
PressedKept(curr_state, stable) == pressed

\* faulty: the previous sample is committed in place of the current one
PressedFromLast(curr_state, stable) ==
  IF stable /\ curr_state # pressed THEN last_state ELSE pressed

\* the value of this->pressed after the if/else of read()
PressedAfter(curr_state, stable) ==
  IF stable /\ curr_state # pressed THEN curr_state ELSE pressed

(***************************************************************************)
(* The accessors.                                                          *)
(***************************************************************************)
isPressed == pressed

releasedFor(ms, t) ==
  ~pressed /\ ElapsedSince(t, last_debounce_time) >= ToUnsignedLong(ms)

wasPressed == changed /\ pressed

\* faulty: the state is not looked at
wasReleasedAny == changed

wasReleased == changed /\ ~pressed

(***************************************************************************)
(* The class once more, as functions from one object to the next: b is a   *)
(* record of the fields of a LoknoButton.  The twin is run with them.       *)
(***************************************************************************)
\* LoknoButton(pin, debounce_time, pullup_enable, active_low)
NewButton(interval, pullup, polarity) ==
  [ debounce_time      |-> interval,
    pullup_enable      |-> pullup,
    active_low         |-> polarity,
    pressed            |-> FALSE,
    changed            |-> FALSE,
    last_state         |-> HIGH,
    last_debounce_time |-> 0 ]

\* b.begin() at time t, the pin reading raw
BeginOf(b, raw, t) ==
  LET seed == IF b.active_low THEN ~raw ELSE raw
  IN  [b EXCEPT !.pressed = seed,
                !.last_state = seed,
                !.changed = FALSE,
                !.last_debounce_time = t % bench.mod]

\* b.read(), the pin reading raw, the millis() of line 21 at time t1 and
\* the millis() of line 23 at time t2
ReadOf(b, raw, t1, t2) ==
  LET curr_state == IF b.active_low THEN ~raw ELSE raw
      stamp == IF curr_state # b.last_state
                 THEN t1 % bench.mod
                 ELSE b.last_debounce_time
      elapsed == ((t2 % bench.mod) - stamp) % bench.mod
      commit == elapsed > (b.debounce_time % bench.mod) /\ curr_state # b.pressed
  IN  [b EXCEPT !.pressed = IF commit THEN curr_state ELSE @,
                !.changed = commit,
                !.last_state = curr_state,
                !.last_debounce_time = stamp]

(***************************************************************************)
(* Records of the history variables.                                       *)
(***************************************************************************)
Call(op, raw, arg, ret) ==
  [op |-> op, raw |-> raw, arg |-> arg, ret |-> ret]

NoStretch ==
  [differs |-> FALSE, over |-> 0, atLeast |-> 0, hits |-> 0, presses |-> 0]

Bump(n) == IF n < 2 THEN n + 1 ELSE 2

(***************************************************************************)
(* Construction.                                                           *)
(***************************************************************************)
Init ==
  /\ bench \in Benches
  /\ debounce_time \in bench.intervals
  /\ pullup_enable \in bench.pullups
  /\ active_low \in bench.polarity
  /\ pressed = FALSE
  /\ changed = FALSE
  /\ last_state = HIGH
  /\ last_debounce_time = 0
  /\ pin_mode = "unset"
  /\ now = 0
  /\ call = Call("new", HIGH, 0, FALSE)
  /\ since = 0
  /\ first = -1
  /\ stretch = NoStretch
  /\ last_event = "none"
  /\ confirmed = -1
  /\ twin = NewButton(debounce_time, pullup_enable, ~active_low)

(***************************************************************************)
(* void begin()                                                            *)
(***************************************************************************)
begin(raw) ==
  /\ pin_mode' = IF pullup_enable THEN "INPUT_PULLUP" ELSE "INPUT"
  /\ pressed' = Invert(raw)
  /\ last_state' = pressed'
  /\ changed' = FALSE
  /\ last_debounce_time' = Millis(now)
  /\ call' = Call("begin", raw, 0, FALSE)
  /\ UNCHANGED <<config, now, bench>>

\* begin() with what it adds to the history
Begin(raw) ==
  /\ begin(raw)
  /\ since' = now
  /\ first' = -1
  /\ stretch' = NoStretch
  /\ last_event' = "none"
  /\ confirmed' = confirmed
  /\ twin' = BeginOf(twin, ~raw, now)

\* the edge a read() reports is remembered until the next one
Noted ==
  last_event' = IF changed' THEN (IF pressed' THEN "press" ELSE "release")
                ELSE last_event

(***************************************************************************)
(* What a read() of sample raw adds to the history, written without the    *)
(* operators of read(): t1 is the time of the millis() of line 21, t2 the  *)
(* time of the millis() of line 23.                                        *)
(***************************************************************************)
Witnessed(raw, t1, t2) ==
  LET sample == (raw # active_low)
      observed == sample # last_state
      startedAt == IF observed THEN t1 ELSE since
      real == t2 - startedAt
      wrapped == real % bench.mod
      base == IF observed
                THEN [NoStretch EXCEPT !.differs = (sample # pressed)]
                ELSE stretch
  IN  /\ since' = startedAt
      /\ first' = IF observed /\ (first = -1 \/ stretch.hits >= 1) THEN t1 ELSE first
      /\ stretch' =
           [ differs |-> base.differs,
             over    |-> IF wrapped > debounce_time THEN Bump(base.over) ELSE base.over,
             atLeast |-> IF real >= debounce_time THEN Bump(base.atLeast) ELSE base.atLeast,
             hits    |-> IF changed' THEN Bump(base.hits) ELSE base.hits,
             presses |-> IF changed' /\ pressed' THEN Bump(base.presses) ELSE base.presses ]
      /\ Noted
      /\ confirmed' = IF changed' THEN t2 ELSE confirmed

(***************************************************************************)
(* void read().  The clock may advance by skew between the millis() of     *)
(* line 21 and the millis() of line 23.                                    *)
(***************************************************************************)
read(raw, skew) ==
  LET curr_state == Invert(raw)
      stamp == Timestamp(curr_state, now)
      stable == Debounced(now + skew, stamp)
  IN  /\ now + skew <= bench.horizon
      /\ last_debounce_time' = stamp
      /\ pressed' = PressedAfter(curr_state, stable)
      /\ changed' = ChangedAfter(curr_state, stable)
      /\ last_state' = curr_state
      /\ now' = now + skew
      /\ call' = Call("read", raw, 0, FALSE)
      /\ UNCHANGED <<config, pin_mode, bench>>

\* read() with what it adds to the history
Read(raw, skew) ==
  /\ read(raw, skew)
  /\ Witnessed(raw, now, now + skew)
  /\ twin' = ReadOf(twin, ~raw, now, now + skew)

(***************************************************************************)
(* The const accessors: they return a value and assign nothing.            *)
(***************************************************************************)
\* faulty: the accessor consumes the edge
ReturnsAndClears(op, arg, ret) ==
  /\ call' = Call(op, HIGH, arg, ret)
  /\ changed' = FALSE
  /\ UNCHANGED <<config, pressed, last_state, last_debounce_time, pin_mode, now, bench, history>>

Returns(op, arg, ret) ==
  /\ call' = Call(op, HIGH, arg, ret)
  /\ UNCHANGED <<config, fields, pin_mode, now, bench, history>>

CallIsPressed == Returns("isPressed", 0, isPressed)

CallReleasedFor(ms) == Returns("releasedFor", ms, releasedFor(ms, now))

CallWasPressed == Returns("wasPressed", 0, wasPressed)

CallWasReleased == Returns("wasReleased", 0, wasReleased)

(***************************************************************************)
(* Time passing between two calls.                                         *)
(***************************************************************************)
Tick(d) ==
  /\ now + d <= bench.horizon
  /\ now' = now + d
  /\ call' = Call("tick", HIGH, 0, FALSE)
  /\ UNCHANGED <<config, fields, pin_mode, bench, history>>

Next ==
  \/ \E raw \in BOOLEAN : Begin(raw)
  \/ \E raw \in BOOLEAN : \E skew \in bench.skews : Read(raw, skew)
  \/ CallIsPressed
  \/ \E ms \in bench.durations : CallReleasedFor(ms)
  \/ CallWasPressed
  \/ CallWasReleased
  \/ \E d \in bench.ticks : Tick(d)

Spec == Init /\ [][Next]_vars

(***************************************************************************)
(* The sketch running for ever: setup() calls begin(), loop() keeps        *)
(* calling read(), and the timer keeps counting and wraps.  Only the       *)
(* counter matters to the code, so the time is kept within one range of    *)
(* the clock; of the history only the last edge is kept, the unwrapped     *)
(* times have no meaning here.                                             *)
(***************************************************************************)
times == <<since, first, stretch, confirmed, twin>>

Setup(raw) ==
  /\ begin(raw)
  /\ last_event' = "none"
  /\ UNCHANGED times

Loop(raw, skew) ==
  /\ read(raw, skew)
  /\ Noted
  /\ UNCHANGED times

Advance(d) ==
  /\ now' = (now + d) % bench.mod
  /\ call' = Call("tick", HIGH, 0, FALSE)
  /\ UNCHANGED <<config, fields, pin_mode, bench, history>>

InitLive == Init /\ bench = SmallBench

NextLive ==
  \/ \E raw \in BOOLEAN : Setup(raw)
  \/ \E raw \in BOOLEAN : \E skew \in bench.skews : Loop(raw, skew)
  \/ \E d \in bench.ticks : Advance(d)

SpecLive ==
  /\ InitLive
  /\ [][NextLive]_vars
  /\ WF_vars(\E raw \in BOOLEAN : \E skew \in bench.skews : Loop(raw, skew))
  /\ WF_vars(\E d \in bench.ticks : Advance(d))

TypeOK ==
  /\ bench \in Benches
  /\ debounce_time \in bench.intervals
  /\ pullup_enable \in BOOLEAN
  /\ active_low \in BOOLEAN
  /\ pressed \in BOOLEAN
  /\ changed \in BOOLEAN
  /\ last_state \in BOOLEAN
  /\ last_debounce_time \in 0 .. bench.mod - 1
  /\ pin_mode \in {"unset", "INPUT", "INPUT_PULLUP"}
  /\ now \in 0 .. bench.horizon
  /\ call.op \in Operations
  /\ since \in 0 .. now
  /\ first \in -1 .. now
  /\ last_event \in {"none", "press", "release"}
(***************************************************************************)
(* The real and the wrapped time between the last restart of the debounce  *)
(* window and the end of the most recent call.                             *)
(***************************************************************************)
RealElapsed == now - since
WrappedElapsed == (now - since) % bench.mod

\* C1: a read() at which less than debounce_time has elapsed since the raw
\* change that was observed last leaves pressed as it was and reports
\* changed = false.
Thm_C1 ==
  [][(call'.op = "read" /\ now' - since' < debounce_time)
       => (pressed' = pressed /\ ~changed')]_vars

\* a read() inside the window of a raw change that differs from pressed
Wit_C1 ==
  /\ pin_mode # "unset"
  /\ call.op = "read"
  /\ RealElapsed < debounce_time
  /\ last_state # pressed
  /\ ~changed

\* C2 as stated: in the stretch of reads after a raw change to a value
\* different from the debounced state, changed is true at exactly the first
\* read() at which the elapsed time is >= debounce_time, and isPressed()
\* is the new value from that read() on.
Orig_C2 ==
  (call.op = "read" /\ stretch.differs)
    => /\ changed <=> (stretch.atLeast = 1 /\ RealElapsed >= debounce_time)
       /\ stretch.atLeast >= 1 => isPressed = last_state

\* Scenario A: interval 50, active high, raw goes high at t = 0 and stays
\* high; the first read() past the threshold is the one at t = 60.
ScenarioA ==
  ( /\ bench = ScenarioBench
    /\ ~active_low
    /\ call.op = "read"
    /\ call.raw = HIGH
    /\ stretch.differs
    /\ since = 0
    /\ now = 60
    /\ stretch.over = 1 )
    => (changed /\ isPressed /\ wasPressed)

\* C2, amended: in the stretch of reads after a raw change to a value
\* different from the debounced state, changed is true at exactly the first
\* read() at which the elapsed time, taken modulo the clock's range, is
\* strictly greater than debounce_time; isPressed() is the old value before
\* that read() and the new value from it on.  Scenario A is an instance.
Thm_C2 ==
  /\ (call.op = "read" /\ stretch.differs)
       => /\ changed <=> (stretch.over = 1 /\ WrappedElapsed > debounce_time)
          /\ stretch.over >= 1 => isPressed = last_state
          /\ stretch.over = 0 => isPressed # last_state
  /\ ScenarioA

\* the read() of Scenario A
Wit_C2 ==
  /\ pin_mode # "unset"
  /\ bench = ScenarioBench
  /\ ~active_low
  /\ call.op = "read"
  /\ call.raw = HIGH
  /\ stretch.differs
  /\ since = 0
  /\ now = 60
  /\ stretch.over = 1
  /\ changed

\* C3: a raw change observed inside a running window restarts the window.
\* A read() no more than debounce_time after the latest observed change
\* confirms nothing, however long ago the first change was; a read() more
\* than debounce_time (modulo the clock's range) after the latest change
\* confirms a sample that differs from pressed.  Scenario B: changes
\* observed at t = 0 and last at t = 30 towards high; the read() at t = 40
\* reports changed = false, the read() at t = 85 reports changed = true.
Thm_C3 ==
  /\ [][(call'.op = "read" /\ first' # -1 /\ first' < since')
          => /\ (now' - since' <= debounce_time)
                  => (~changed' /\ pressed' = pressed)
             /\ ((now' - since') % bench.mod > debounce_time /\ last_state' # pressed)
                  => (changed' /\ pressed' = last_state')]_vars
  /\ [][( /\ bench = ScenarioBench
          /\ ~active_low
          /\ call'.op = "read"
          /\ call'.raw = HIGH
          /\ ~pressed
          /\ first' = 0
          /\ since' = 30 )
          => /\ now' = 40 => (~changed' /\ ~pressed')
             /\ now' = 85 => (changed' /\ isPressed')]_vars

\* the read() at t = 85 of Scenario B
Wit_C3 ==
  /\ pin_mode # "unset"
  /\ bench = ScenarioBench
  /\ ~active_low
  /\ call.op = "read"
  /\ call.raw = HIGH
  /\ first = 0
  /\ since = 30
  /\ now = 85
  /\ changed
  /\ pressed
  /\ last_event = "press"
\* C4: changed is edge-triggered.  After a read() has confirmed a
\* transition, every following read() of the same raw value reports
\* changed = false, whatever time has elapsed; so between two observed raw
\* changes changed is true for at most one read(), and so is wasPressed().
Thm_C4 ==
  /\ [][(call'.op = "read" /\ stretch.hits >= 1 /\ last_state' = last_state)
          => (~changed' /\ ~wasPressed')]_vars
  /\ [](stretch.hits <= 1 /\ stretch.presses <= 1)

\* a read() after the confirming one, same raw value, past the threshold
Wit_C4 ==
  /\ pin_mode # "unset"
  /\ call.op = "read"
  /\ stretch.hits = 1
  /\ stretch.over = 2
  /\ WrappedElapsed > debounce_time
  /\ ~changed

\* C5: after a read(), changed is true exactly when that read() changed
\* pressed; so a confirmed press follows a release (or none) and a
\* confirmed release follows a press (or none).
Thm_C5 ==
  [][call'.op = "read"
       => /\ changed' <=> (isPressed' # isPressed)
          /\ wasPressed' => last_event # "press"
          /\ wasReleased' => last_event # "release"]_vars

\* a read() that confirms a release
Wit_C5 ==
  /\ pin_mode # "unset"
  /\ call.op = "read"
  /\ changed
  /\ ~pressed
  /\ last_event = "release"

\* C6: wasPressed() and wasReleased() are never both true, both are false
\* when changed is false, and they return changed /\ pressed and
\* changed /\ ~pressed.
Thm_C6 ==
  /\ ~(wasPressed /\ wasReleased)
  /\ ~changed => (~wasPressed /\ ~wasReleased)
  /\ call.op = "wasPressed" => (call.ret <=> (changed /\ pressed))
  /\ call.op = "wasReleased" => (call.ret <=> (changed /\ ~pressed))

\* wasReleased() called right after a confirmed press: it returns false
Wit_C6 ==
  /\ call.op = "wasReleased"
  /\ changed
  /\ pressed
  /\ ~call.ret

\* C7 as stated: releasedFor(ms) returns true exactly when the button is
\* released and the time since the debounce window was last restarted is
\* at least ms, for every ms.
Orig_C7 ==
  (pin_mode # "unset" /\ call.op = "releasedFor")
    => (call.ret <=> (~pressed /\ RealElapsed >= call.arg))

\* The part of C7 that the code keeps: for ms >= 0, and while less than the
\* clock's range has really elapsed, releasedFor(ms) is true exactly when
\* the button is released and at least ms has elapsed.  Scenario C:
\* releasedFor(100) is true 120 ms after the last raw change and false
\* 50 ms after it.
Part_C7 ==
  /\ (call.op = "releasedFor" /\ call.arg >= 0 /\ RealElapsed < bench.mod)
       => (call.ret <=> (~pressed /\ RealElapsed >= call.arg))
  /\ (call.op = "releasedFor" /\ call.arg = 100 /\ ~pressed)
       => /\ RealElapsed = 120 => call.ret
          /\ RealElapsed = 50 => ~call.ret

\* C8: begin() sets pressed and last_state to the sample, inverted when
\* active_low, clears changed and stamps last_debounce_time with millis().
\* Scenario D: active low and an electrically low pin give isPressed()
\* true and no edge.
Thm_C8 ==
  call.op = "begin"
    => /\ pressed = (call.raw # active_low)
       /\ last_state = (call.raw # active_low)
       /\ ~changed
       /\ last_debounce_time = now % bench.mod
       /\ (active_low /\ call.raw = LOW)
            => (isPressed /\ ~wasPressed /\ ~wasReleased)

\* begin() of Scenario D, called again after the clock has wrapped
Wit_C8 ==
  /\ call.op = "begin"
  /\ active_low
  /\ call.raw = LOW
  /\ isPressed
  /\ now > bench.mod

\* C9: while less than the clock's range has really elapsed since the
\* window was restarted, read() and releasedFor() give the result that the
\* unwrapped times give, also when millis() has wrapped in between.
Thm_C9 ==
  /\ [][(call'.op = "read" /\ now' - since' < bench.mod)
          => LET confirm == (now' - since' > debounce_time) /\ (last_state' # pressed)
             IN  /\ changed' <=> confirm
                 /\ pressed' = (IF confirm THEN last_state' ELSE pressed)]_vars
  /\ [](( call.op = "releasedFor" /\ RealElapsed < bench.mod)
          => (call.ret <=> (~pressed /\ RealElapsed >= call.arg % bench.mod)))

\* millis() has wrapped since the window was restarted
Wrapped == now % bench.mod < since % bench.mod

\* a read() confirms a transition across a wrap of millis()
Wit_C9 ==
  /\ pin_mode # "unset"
  /\ call.op = "read"
  /\ Wrapped
  /\ RealElapsed < bench.mod
  /\ changed

\* C10: the accessors assign no field, pressed changes only in read() (and
\* begin()), and time passing without a read() leaves the answers of
\* isPressed(), wasPressed() and wasReleased() as they were.
Thm_C10 ==
  [][/\ call'.op \in {"isPressed", "releasedFor", "wasPressed", "wasReleased"}
          => UNCHANGED <<config, fields, pin_mode>>
     /\ call'.op \notin {"read", "begin"} => pressed' = pressed
     /\ call'.op = "tick"
          => /\ isPressed' = isPressed
             /\ wasPressed' = wasPressed
             /\ wasReleased' = wasReleased]_vars

\* wasPressed() answers true and the edge is still there for the next call
Wit_C10 ==
  /\ call.op = "wasPressed"
  /\ call.ret
  /\ changed
  /\ pressed
\* C11: a read() stamps last_debounce_time with the clock of line 21 when
\* its sample, after inversion, differs from last_state, and leaves it
\* alone otherwise; in both cases it ends with last_state equal to the
\* sample.
Thm_C11 ==
  [][call'.op = "read"
       => LET sample == (call'.raw # active_low)
          IN  /\ sample # last_state => last_debounce_time' = now % bench.mod
              /\ sample = last_state => last_debounce_time' = last_debounce_time
              /\ last_state' = sample]_vars

\* a read() restamps for a change back to the debounced state, which will
\* never be confirmed, after the clock has wrapped
Wit_C11 ==
  /\ pin_mode # "unset"
  /\ call.op = "read"
  /\ since = now
  /\ now > bench.mod
  /\ last_debounce_time = now % bench.mod
  /\ first # -1
  /\ first < since
  /\ last_state = pressed
  /\ ~changed

\* C13: with one clock value for the whole read() (no tick between lines 21
\* and 23), a read() whose sample differs from the previous sample confirms
\* nothing in that call, for every debounce_time >= 0.
Thm_C13 ==
  [][(call'.op = "read" /\ now' = now /\ (call'.raw # active_low) # last_state)
       => (~changed' /\ pressed' = pressed)]_vars

\* such a read() with debounce_time = 0 and a sample that differs from pressed
Wit_C13 ==
  /\ pin_mode # "unset"
  /\ debounce_time = 0
  /\ call.op = "read"
  /\ since = now
  /\ stretch.differs
  /\ stretch.over = 0
  /\ last_state # pressed
  /\ ~changed

\* C16: after a read(), changed implies pressed = last_state, and an
\* elapsed time (the clock difference that read() computed) above
\* debounce_time implies pressed = last_state; pressed differs from the
\* latest sample only while the window is open.
Thm_C16 ==
  call.op = "read"
    => /\ changed => pressed = last_state
       /\ WrappedElapsed > debounce_time => pressed = last_state
       /\ pressed # last_state => WrappedElapsed <= debounce_time

\* a read() that commits one tick after the raw change, debounce_time = 0
Wit_C16 ==
  /\ pin_mode # "unset"
  /\ call.op = "read"
  /\ changed
  /\ RealElapsed = 1
  /\ debounce_time = 0
  /\ pressed = last_state
\* C12: two buttons of the same debounce_time and opposite polarity, driven
\* by the same calls at the same clock values with inverted pin levels,
\* agree on pressed, changed, last_state and last_debounce_time after
\* every call.
Thm_C12 ==
  /\ twin.active_low = ~active_low
  /\ twin.debounce_time = debounce_time
  /\ twin.pressed = pressed
  /\ twin.changed = changed
  /\ twin.last_state = last_state
  /\ twin.last_debounce_time = last_debounce_time

\* both buttons confirm a press: the active-high one on a high pin, its
\* active-low twin on a low pin
Wit_C12 ==
  /\ pin_mode # "unset"
  /\ call.op = "read"
  /\ ~active_low
  /\ call.raw = HIGH
  /\ twin.active_low
  /\ wasPressed
  /\ twin.changed
  /\ twin.pressed
\* C15 as stated: a read() that reports changed returns more than
\* debounce_time after the previous read() that reported changed, and it
\* never directly follows a read() that reported changed.
Orig_C15 ==
  [][(pin_mode # "unset" /\ call'.op = "read" /\ changed')
       => /\ confirmed # -1 => now' - confirmed > debounce_time
          /\ ~changed]_vars

\* The part of C15 that the code keeps: the distance between two reads
\* that report changed, always; and no two such reads in a row when the
\* clock advances by no more than debounce_time inside the second one.
Part_C15 ==
  [][(call'.op = "read" /\ changed')
       => /\ confirmed # -1 => now' - confirmed > debounce_time
          /\ now' - now <= debounce_time => ~changed]_vars
\* a step after which the button is still released and in which neither
\* begin() nor a read() that observes a raw change has run
StaysReleased ==
  /\ pin_mode # "unset"
  /\ ~pressed
  /\ ~pressed'
  /\ call'.op # "begin"
  /\ ~(call'.op = "read" /\ last_state' # last_state)

\* C17 as stated: for ms >= 0, once releasedFor(ms) is true it stays true
\* for as long as the button stays released and no read() observes a raw
\* change, however much time passes.
Orig_C17 ==
  [][\A ms \in {d \in bench.durations : d >= 0} :
       (StaysReleased /\ releasedFor(ms, now)) => releasedFor(ms, now)']_vars

\* The part of C17 that the code keeps: the same, for as long as less than
\* the clock's range has really elapsed since the window was restarted.
Part_C17 ==
  [][\A ms \in {d \in bench.durations : d >= 0} :
       (StaysReleased /\ releasedFor(ms, now) /\ now' - since' < bench.mod)
         => releasedFor(ms, now)']_vars
\* from some point on begin() is not called again and every read() samples
\* the level raw
SettledOn(raw) ==
  /\ pin_mode # "unset"
  /\ call.op # "begin"
  /\ call.op = "read" => call.raw = raw

\* C14 as stated: if from some point on the raw input is constant, read()
\* keeps being called and the clock keeps advancing, then eventually
\* isPressed() is the raw value (after inversion) and changed stays false.
Orig_C14 ==
  \A raw \in BOOLEAN :
    ( /\ <>[]SettledOn(raw)
      /\ []<>(call.op = "read")
      /\ []<>(call.op = "tick") )
      => <>[](isPressed = (raw # active_low) /\ ~changed)

\* a read() that returns at clock value c
PolledAt(c) == call.op = "read" /\ now % bench.mod = c

\* C14, amended: the same when moreover read() is called at every value
\* of the clock again and again (the button is polled at least once per
\* millisecond) and debounce_time is below the largest clock value.
Thm_C14 ==
  \A raw \in BOOLEAN :
    ( /\ debounce_time + 1 < bench.mod
      /\ <>[]SettledOn(raw)
      /\ \A c \in 0 .. (2 ^ ClockBits - 1) : []<>PolledAt(c) )
      => <>[](isPressed = (raw # active_low) /\ ~changed)

\* settled: the debounced state is the pressed sample of the last read(),
\* with the longest interval, and the edge has been consumed
Wit_C14 ==
  /\ pin_mode # "unset"
  /\ debounce_time = MaxDebounce
  /\ now < last_debounce_time
  /\ call.op = "read"
  /\ (call.raw # active_low)
  /\ isPressed
  /\ last_event = "press"
  /\ ~changed
====
